---- MODULE Spec2Model ----
(***************************************************************************)
(* A model of cc14514/llm-simulator: the response composer                 *)
(* (internal/simulator: GenerateResponse, GenerateStreamChunks, GetModels, *)
(* getResponseText, estimateTokens) and the HTTP request orchestrator      *)
(* (internal/handler: ChatCompletions, handleStreamingResponse,            *)
(* handleNonStreamingResponse, ListModels, writeError).                    *)
(*                                                                         *)
(* Texts (message contents, the fixed response) are sequences of           *)
(* one-character strings, so that splitting, trimming and lengths are      *)
(* computed as the code computes them.  Names (roles, model names, error   *)
(* messages and types) are atomic strings.  A Go pointer is a sequence of  *)
(* length 0 (nil) or 1.  The error rate and the values of rand.Float64()   *)
(* are in hundredths.  The Created timestamp of a response is not          *)
(* modelled; the id is the clock reading it is formatted from.             *)
(***************************************************************************)
EXTENDS Integers, Sequences, FiniteSets, TLC

VARIABLES
  cfg,          \* Simulator.Config, set once at startup
  clock,        \* the last reading of time.Now().UnixNano()
  pc,           \* per worker: where the handler of its request stands
  req,          \* per worker: the inbound HTTP request
  status,       \* per worker: the status code written (0: header not written)
  ctype,        \* per worker: the Content-Type header set by the handler
  out,          \* per worker: the body events written to the ResponseWriter
  flushed,      \* per worker: how many events of out have been flushed
  trace,        \* per worker: the steps the handler has taken, in order
  chunks,       \* per worker: the chunk slice handleStreamingResponse ranges over
  idx,          \* per worker: the index of the range loop (1-based)
  disconnected, \* per worker: the client has gone away
  creq,         \* composer calls: the request passed
  cresp,        \* composer calls: result of GenerateResponse (0 or 1 element)
  cchunks,      \* composer calls: result of GenerateStreamChunks (0 or 1 element)
  cmodels       \* composer calls: result of GetModels (0 or 1 element)

vars == <<cfg, clock, pc, req, status, ctype, out, flushed, trace, chunks, idx,
          disconnected, creq, cresp, cchunks, cmodels>>

hvars == <<pc, req, status, ctype, out, flushed, trace, chunks, idx, disconnected>>

cvars == <<creq, cresp, cchunks, cmodels>>

(***************************************************************************)
(* Bounds of the model.                                                    *)
(***************************************************************************)
NumWorkers == 2

MaxTextLen == 4

MaxMsgs == 2

MaxClock == 2

Workers == 1..NumWorkers

(***************************************************************************)
(* Texts.                                                                  *)
(***************************************************************************)
Letters == {"a"}

Spaces == {" "}

Chars == Letters \cup Spaces

RECURSIVE TextsOfLen(_)
TextsOfLen(n) ==
  IF n = 0 THEN {<<>>}
  ELSE {Append(t, c) : t \in TextsOfLen(n - 1), c \in Chars}

Texts == UNION {TextsOfLen(n) : n \in 0..MaxTextLen}

EchoPrefix == <<"E", "c", "h", "o", ":", " ">>

IsSpace(c) == c \in Spaces \cup {"\t", "\n", "\r"}

\* strings.Fields: the maximal runs of non-space characters, in order.
RECURSIVE FieldsFrom(_, _, _, _)
FieldsFrom(s, i, cur, acc) ==
  IF i > Len(s)
    THEN (IF cur = <<>> THEN acc ELSE Append(acc, cur))
    ELSE IF IsSpace(s[i])
      THEN FieldsFrom(s, i + 1, <<>>, IF cur = <<>> THEN acc ELSE Append(acc, cur))
      ELSE FieldsFrom(s, i + 1, Append(cur, s[i]), acc)

Fields(s) == FieldsFrom(s, 1, <<>>, <<>>)

\* strings.TrimSpace: leading and trailing white space removed.
RECURSIVE TrimLeft(_)
TrimLeft(s) ==
  IF s # <<>> /\ IsSpace(Head(s)) THEN TrimLeft(Tail(s)) ELSE s

RECURSIVE TrimRight(_)
TrimRight(s) ==
  IF s # <<>> /\ IsSpace(s[Len(s)]) THEN TrimRight(SubSeq(s, 1, Len(s) - 1)) ELSE s

TrimSpace(s) == TrimRight(TrimLeft(s))

(***************************************************************************)
(* The response composer (internal/simulator).                             *)
(***************************************************************************)
Message(role, content) == [role |-> role, content |-> content]

getResponseText_First(c, r) ==
  IF c.EchoMode /\ Len(r.messages) > 0
    THEN EchoPrefix \o r.messages[1].content
    ELSE c.FixedResponse

getResponseText(c, r) ==
  IF c.EchoMode /\ Len(r.messages) > 0
    THEN EchoPrefix \o r.messages[Len(r.messages)].content
    ELSE c.FixedResponse

estimateStringTokens_NoFloor(s) == Len(s) \div 4

estimateStringTokens_RoundUp(s) == (Len(s) + 3) \div 4

estimateStringTokens(s) ==
  LET tokens == Len(s) \div 4
  IN  IF tokens = 0 /\ Len(s) > 0 THEN 1 ELSE tokens

RECURSIVE estimateTokensFrom(_, _)
estimateTokensFrom(messages, i) ==
  IF i > Len(messages) THEN 0
  ELSE estimateStringTokens(messages[i].content) + 4
         + estimateTokensFrom(messages, i + 1)

estimateTokens_NoOverhead(messages) ==
  estimateTokensFrom(messages, 1) - 4 * Len(messages)

estimateTokens(messages) == estimateTokensFrom(messages, 1)

resolveModel_AlwaysDefault(c, r) == c.DefaultModel

resolveModel(c, r) == IF r.model = "" THEN c.DefaultModel ELSE r.model

GenerateResponse(c, r, now) ==
  [ id      |-> now,
    object  |-> "chat.completion",
    model   |-> resolveModel(c, r),
    choices |-> << [ index         |-> 0,
                     message       |-> << Message("assistant", getResponseText(c, r)) >>,
                     delta         |-> <<>>,
                     finish_reason |-> << "stop" >> ] >>,
    usage   |-> [ prompt_tokens     |-> estimateTokens(r.messages),
                  completion_tokens |-> estimateStringTokens(getResponseText(c, r)),
                  total_tokens      |-> estimateTokens(r.messages)
                                          + estimateStringTokens(getResponseText(c, r)) ] ]

\* One element of the slice GenerateStreamChunks returns.  Usage is the zero
\* value: the chunks never set it.
Chunk(id, mdl, delta, finish) ==
  [ id      |-> id,
    object  |-> "chat.completion.chunk",
    model   |-> mdl,
    choices |-> << [ index         |-> 0,
                     message       |-> <<>>,
                     delta         |-> << delta >>,
                     finish_reason |-> finish ] >>,
    usage   |-> [ prompt_tokens |-> 0, completion_tokens |-> 0, total_tokens |-> 0 ] ]

WordChunks_WithRole(words, id, mdl) ==
  [ i \in 1..Len(words) |->
      Chunk(id, mdl, Message("assistant", words[i] \o <<" ">>), <<>>) ]

WordChunks(words, id, mdl) ==
  [ i \in 1..Len(words) |-> Chunk(id, mdl, Message("", words[i] \o <<" ">>), <<>>) ]

GenerateStreamChunks_NoTerminal(c, r, now) ==
  LET words == Fields(getResponseText(c, r))
      mdl   == resolveModel(c, r)
  IN  << Chunk(now, mdl, Message("assistant", <<>>), <<>>) >>
        \o WordChunks(words, now, mdl)

GenerateStreamChunks_EveryStop(c, r, now) ==
  LET words == Fields(getResponseText(c, r))
      mdl   == resolveModel(c, r)
  IN  << Chunk(now, mdl, Message("assistant", <<>>), <<>>) >>
        \o [ i \in 1..Len(words) |->
               Chunk(now, mdl, Message("", words[i] \o <<" ">>), << "stop" >>) ]
        \o << Chunk(now, mdl, Message("", <<>>), << "stop" >>) >>

GenerateStreamChunks(c, r, now) ==
  LET words == Fields(getResponseText(c, r))
      mdl   == resolveModel(c, r)
  IN  << Chunk(now, mdl, Message("assistant", <<>>), <<>>) >>
        \o WordChunks(words, now, mdl)
        \o << Chunk(now, mdl, Message("", <<>>), << "stop" >>) >>

GetModels_Reversed(c) ==
  [ object |-> "list",
    data   |-> [ i \in 1..Len(c.AvailableModels) |->
                   [ id       |-> c.AvailableModels[Len(c.AvailableModels) + 1 - i],
                     object   |-> "model",
                     created  |-> 1700000000,
                     owned_by |-> "llm-simulator" ] ] ]

GetModels(c) ==
  [ object |-> "list",
    data   |-> [ i \in 1..Len(c.AvailableModels) |->
                   [ id       |-> c.AvailableModels[i],
                     object   |-> "model",
                     created  |-> 1700000000,
                     owned_by |-> "llm-simulator" ] ] ]

(***************************************************************************)
(* Inputs.                                                                 *)
(***************************************************************************)
Roles == {"user", "assistant"}

ModelNames == {"", "gpt-4o"}

ZeroRequest == [model |-> "", messages |-> <<>>, stream |-> FALSE]

\* The values rand.Float64() can return, in hundredths: all in [0, 100).
RandDraws == {0, 49, 50, 99}

HandlerMessageLists ==
  { <<>>,
    << Message("user", <<"a">>) >>,
    << Message("user", <<"a">>), Message("assistant", <<>>) >> }

HandlerChatRequests ==
  [model : ModelNames, messages : HandlerMessageLists, stream : BOOLEAN]

\* An inbound HTTP request: the route, the method, whether the body decodes
\* into a ChatCompletionRequest (and then to what), and whether the
\* ResponseWriter is an http.Flusher.
Methods == {"GET", "POST", "DELETE"}

HandlerRequests ==
  { [endpoint |-> e, method |-> m, parseOK |-> TRUE, body |-> b, flusher |-> f] :
      e \in {"chat", "models"}, m \in Methods,
      b \in HandlerChatRequests, f \in BOOLEAN }
  \cup
  { [endpoint |-> e, method |-> m, parseOK |-> FALSE, body |-> ZeroRequest, flusher |-> f] :
      e \in {"chat", "models"}, m \in Methods, f \in BOOLEAN }

HandlerConfigs ==
  [ DefaultModel     : {"llm-simulator-1"},
    AvailableModels  : {<<"llm-simulator-1", "gpt-4o">>},
    ResponseDelay    : {0, 1},
    StreamChunkDelay : {0, 1},
    EchoMode         : BOOLEAN,
    FixedResponse    : {<<>>, <<"a", " ", "b">>},
    ErrorRate        : {0, 50, 100},
    ErrorStatusCode  : {0, 503} ]

NoRequest ==
  [endpoint |-> "", method |-> "", parseOK |-> FALSE, body |-> ZeroRequest,
   flusher |-> FALSE]

(***************************************************************************)
(* The request orchestrator (internal/handler).                            *)
(***************************************************************************)
\* time.Now(): a reading never below the last one, and possibly equal to it.
ClockReadings == {t \in {clock, clock + 1} : t <= MaxClock}

Step(r, label) == trace' = [trace EXCEPT ![r] = Append(@, label)]

Steps(r, labels) == trace' = [trace EXCEPT ![r] = @ \o labels]

Goto(r, label) == pc' = [pc EXCEPT ![r] = label]

\* The status line goes out with the first WriteHeader or Write; later
\* WriteHeader calls change nothing.
HeaderWritten(r, code) ==
  status' = [status EXCEPT ![r] = IF @ = 0 THEN code ELSE @]

writeError(r, statusCode, message, errType) ==
  /\ ctype' = [ctype EXCEPT ![r] = "application/json"]
  /\ HeaderWritten(r, statusCode)
  /\ out' = [out EXCEPT ![r] =
               Append(@, [kind |-> "error", message |-> message, type |-> errType])]

\* The order of the statements of ChatCompletions: the stage that follows
\* each stage when it does not return.
NextStage_DelayFirst(stage) ==
  CASE stage = "chat"     -> "decode"
    [] stage = "decode"   -> "validate"
    [] stage = "validate" -> "delay"
    [] stage = "delay"    -> "inject"
    [] stage = "inject"   -> "dispatch"

NextStage(stage) ==
  CASE stage = "chat"     -> "decode"
    [] stage = "decode"   -> "validate"
    [] stage = "validate" -> "inject"
    [] stage = "inject"   -> "delay"
    [] stage = "delay"    -> "dispatch"

\* mux.HandleFunc: a request arrives and is routed to its handler.
ArriveOf(r, requests) ==
  /\ pc[r] = "idle"
  /\ \E q \in requests :
       /\ req' = [req EXCEPT ![r] = q]
       /\ Goto(r, q.endpoint)
  /\ UNCHANGED <<cfg, clock, status, ctype, out, flushed, trace, chunks, idx,
                 disconnected, cvars>>

Arrive(r) == ArriveOf(r, HandlerRequests)

ListModels(r) ==
  /\ pc[r] = "models"
  /\ IF req[r].method # "GET"
       THEN /\ writeError(r, 405, "method not allowed", "invalid_request_error")
            /\ Step(r, "write_error")
            /\ Goto(r, "failed")
       ELSE /\ ctype' = [ctype EXCEPT ![r] = "application/json"]
            /\ HeaderWritten(r, 200)
            /\ out' = [out EXCEPT ![r] =
                         Append(@, [kind |-> "models", body |-> GetModels(cfg)])]
            /\ Step(r, "write_json")
            /\ Goto(r, "done")
  /\ UNCHANGED <<cfg, clock, req, flushed, chunks, idx, disconnected, cvars>>

CheckMethod_Skip(r) ==
  /\ pc[r] = "chat"
  /\ Goto(r, NextStage("chat"))
  /\ UNCHANGED <<cfg, clock, req, status, ctype, out, flushed, trace, chunks, idx,
                 disconnected, cvars>>

CheckMethod(r) ==
  /\ pc[r] = "chat"
  /\ IF req[r].method # "POST"
       THEN /\ writeError(r, 405, "method not allowed", "invalid_request_error")
            /\ Step(r, "write_error")
            /\ Goto(r, "failed")
       ELSE /\ Goto(r, NextStage("chat"))
            /\ UNCHANGED <<status, ctype, out, trace>>
  /\ UNCHANGED <<cfg, clock, req, flushed, chunks, idx, disconnected, cvars>>

DecodeBody(r) ==
  /\ pc[r] = "decode"
  /\ IF ~req[r].parseOK
       THEN /\ writeError(r, 400, "invalid request body", "invalid_request_error")
            /\ Step(r, "write_error")
            /\ Goto(r, "failed")
       ELSE /\ Goto(r, NextStage("decode"))
            /\ UNCHANGED <<status, ctype, out, trace>>
  /\ UNCHANGED <<cfg, clock, req, flushed, chunks, idx, disconnected, cvars>>

ValidateMessages_Skip(r) ==
  /\ pc[r] = "validate"
  /\ Goto(r, NextStage("validate"))
  /\ UNCHANGED <<cfg, clock, req, status, ctype, out, flushed, trace, chunks, idx,
                 disconnected, cvars>>

ValidateMessages(r) ==
  /\ pc[r] = "validate"
  /\ IF Len(req[r].body.messages) = 0
       THEN /\ writeError(r, 400, "messages is required and must be non-empty",
                          "invalid_request_error")
            /\ Step(r, "write_error")
            /\ Goto(r, "failed")
       ELSE /\ Goto(r, NextStage("validate"))
            /\ UNCHANGED <<status, ctype, out, trace>>
  /\ UNCHANGED <<cfg, clock, req, flushed, chunks, idx, disconnected, cvars>>

ErrorStatus_NoDefault(c) == c.ErrorStatusCode

ErrorStatus(c) == IF c.ErrorStatusCode = 0 THEN 500 ELSE c.ErrorStatusCode

InjectionFires_Inverted(rate, draw) == draw > rate

InjectionFires(rate, draw) == draw < rate

InjectError(r) ==
  /\ pc[r] = "inject"
  /\ IF cfg.ErrorRate > 0
       THEN \E d \in RandDraws :
              IF InjectionFires(cfg.ErrorRate, d)
                THEN /\ writeError(r, ErrorStatus(cfg), "simulated error", "server_error")
                     /\ Steps(r, <<"draw", "write_error">>)
                     /\ Goto(r, "failed")
                ELSE /\ Step(r, "draw")
                     /\ Goto(r, NextStage("inject"))
                     /\ UNCHANGED <<status, ctype, out>>
       ELSE /\ Goto(r, NextStage("inject"))
            /\ UNCHANGED <<status, ctype, out, trace>>
  /\ UNCHANGED <<cfg, clock, req, flushed, chunks, idx, disconnected, cvars>>

ResponseDelay_Exclusive(r) ==
  /\ pc[r] = "delay"
  /\ \A r2 \in Workers \ {r} : pc[r2] \notin {"delay", "chunk_delay"}
  /\ IF cfg.ResponseDelay > 0
       THEN Step(r, "sleep_response")
       ELSE UNCHANGED trace
  /\ Goto(r, NextStage("delay"))
  /\ UNCHANGED <<cfg, clock, req, status, ctype, out, flushed, chunks, idx,
                 disconnected, cvars>>

ResponseDelay_NonStreamingOnly(r) ==
  /\ pc[r] = "delay"
  /\ IF cfg.ResponseDelay > 0 /\ ~req[r].body.stream
       THEN Step(r, "sleep_response")
       ELSE UNCHANGED trace
  /\ Goto(r, NextStage("delay"))
  /\ UNCHANGED <<cfg, clock, req, status, ctype, out, flushed, chunks, idx,
                 disconnected, cvars>>

ResponseDelay(r) ==
  /\ pc[r] = "delay"
  /\ IF cfg.ResponseDelay > 0
       THEN Step(r, "sleep_response")
       ELSE UNCHANGED trace
  /\ Goto(r, NextStage("delay"))
  /\ UNCHANGED <<cfg, clock, req, status, ctype, out, flushed, chunks, idx,
                 disconnected, cvars>>

\* The branch on req.Stream, and all of handleNonStreamingResponse.
Dispatch(r) ==
  /\ pc[r] = "dispatch"
  /\ IF req[r].body.stream
       THEN /\ Goto(r, "stream")
            /\ UNCHANGED <<clock, status, ctype, out, trace>>
       ELSE \E now \in ClockReadings :
              /\ clock' = now
              /\ ctype' = [ctype EXCEPT ![r] = "application/json"]
              /\ HeaderWritten(r, 200)
              /\ out' = [out EXCEPT ![r] =
                           Append(@, [kind |-> "json",
                                      body |-> GenerateResponse(cfg, req[r].body, now)])]
              /\ Steps(r, <<"compose_response", "write_json">>)
              /\ Goto(r, "done")
  /\ UNCHANGED <<cfg, req, flushed, chunks, idx, disconnected, cvars>>

StreamBegin_NoFlusherCheck(r) ==
  /\ pc[r] = "stream"
  /\ \E now \in ClockReadings :
       /\ clock' = now
       /\ ctype' = [ctype EXCEPT ![r] = "text/event-stream"]
       /\ chunks' = [chunks EXCEPT ![r] = GenerateStreamChunks(cfg, req[r].body, now)]
       /\ idx' = [idx EXCEPT ![r] = 1]
       /\ Step(r, "compose_stream")
       /\ Goto(r, "emit")
  /\ UNCHANGED <<cfg, req, status, out, flushed, disconnected, cvars>>

\* handleStreamingResponse up to the range loop.
StreamBegin(r) ==
  /\ pc[r] = "stream"
  /\ IF ~req[r].flusher
       THEN /\ writeError(r, 500, "streaming not supported", "server_error")
            /\ Step(r, "write_error")
            /\ Goto(r, "failed")
            /\ UNCHANGED <<clock, chunks, idx>>
       ELSE \E now \in ClockReadings :
              /\ clock' = now
              /\ ctype' = [ctype EXCEPT ![r] = "text/event-stream"]
              /\ chunks' = [chunks EXCEPT ![r] = GenerateStreamChunks(cfg, req[r].body, now)]
              /\ idx' = [idx EXCEPT ![r] = 1]
              /\ Step(r, "compose_stream")
              /\ Goto(r, "emit")
              /\ UNCHANGED <<status, out>>
  /\ UNCHANGED <<cfg, req, flushed, disconnected, cvars>>

EmitChunk_Buffered(r) ==
  /\ pc[r] = "emit"
  /\ idx[r] <= Len(chunks[r])
  /\ HeaderWritten(r, 200)
  /\ out' = [out EXCEPT ![r] = Append(@, [kind |-> "data", chunk |-> chunks[r][idx[r]]])]
  /\ Step(r, "write_chunk")
  /\ Goto(r, "chunk_delay")
  /\ UNCHANGED <<cfg, clock, req, ctype, flushed, chunks, idx, disconnected, cvars>>

EmitChunk_Twice(r) ==
  /\ pc[r] = "emit"
  /\ idx[r] <= Len(chunks[r])
  /\ HeaderWritten(r, 200)
  /\ out' = [out EXCEPT ![r] = @ \o << [kind |-> "data", chunk |-> chunks[r][idx[r]]],
                                        [kind |-> "data", chunk |-> chunks[r][idx[r]]] >>]
  /\ flushed' = [flushed EXCEPT ![r] = Len(out'[r])]
  /\ Steps(r, <<"write_chunk", "write_chunk", "flush">>)
  /\ Goto(r, "chunk_delay")
  /\ UNCHANGED <<cfg, clock, req, ctype, chunks, idx, disconnected, cvars>>

\* One iteration of the range loop up to flusher.Flush().  json.Marshal
\* cannot fail on a chunk: it holds strings and integers only.
EmitChunk(r) ==
  /\ pc[r] = "emit"
  /\ idx[r] <= Len(chunks[r])
  /\ HeaderWritten(r, 200)
  /\ out' = [out EXCEPT ![r] = Append(@, [kind |-> "data", chunk |-> chunks[r][idx[r]]])]
  /\ flushed' = [flushed EXCEPT ![r] = Len(out'[r])]
  /\ Steps(r, <<"write_chunk", "flush">>)
  /\ Goto(r, "chunk_delay")
  /\ UNCHANGED <<cfg, clock, req, ctype, chunks, idx, disconnected, cvars>>

\* The rest of the iteration: the sleep, and the step to the next chunk.
ChunkDelay(r) ==
  /\ pc[r] = "chunk_delay"
  /\ IF cfg.StreamChunkDelay > 0
       THEN Step(r, "sleep_chunk")
       ELSE UNCHANGED trace
  /\ idx' = [idx EXCEPT ![r] = @ + 1]
  /\ Goto(r, IF idx[r] + 1 > Len(chunks[r]) THEN "finish" ELSE "emit")
  /\ UNCHANGED <<cfg, clock, req, status, ctype, out, flushed, chunks,
                 disconnected, cvars>>

EmitDone_NeedsClient(r) ==
  /\ pc[r] = "finish"
  /\ ~disconnected[r]
  /\ HeaderWritten(r, 200)
  /\ out' = [out EXCEPT ![r] = Append(@, [kind |-> "done"])]
  /\ flushed' = [flushed EXCEPT ![r] = Len(out'[r])]
  /\ Steps(r, <<"write_done", "flush">>)
  /\ Goto(r, "done")
  /\ UNCHANGED <<cfg, clock, req, ctype, chunks, idx, disconnected, cvars>>

EmitDone_Missing(r) ==
  /\ pc[r] = "finish"
  /\ Goto(r, "done")
  /\ UNCHANGED <<cfg, clock, req, status, ctype, out, flushed, trace, chunks, idx,
                 disconnected, cvars>>

EmitDone(r) ==
  /\ pc[r] = "finish"
  /\ HeaderWritten(r, 200)
  /\ out' = [out EXCEPT ![r] = Append(@, [kind |-> "done"])]
  /\ flushed' = [flushed EXCEPT ![r] = Len(out'[r])]
  /\ Steps(r, <<"write_done", "flush">>)
  /\ Goto(r, "done")
  /\ UNCHANGED <<cfg, clock, req, ctype, chunks, idx, disconnected, cvars>>

\* The client goes away while the stream is being emitted.  The handler
\* never reads r.Context(): nothing in it changes.
Disconnect(r) ==
  /\ pc[r] \in {"emit", "chunk_delay", "finish"}
  /\ ~disconnected[r]
  /\ disconnected' = [disconnected EXCEPT ![r] = TRUE]
  /\ Step(r, "disconnect")
  /\ UNCHANGED <<cfg, clock, pc, req, status, ctype, out, flushed, chunks, idx, cvars>>

\* The handler has returned; the worker is free for the next request.
Complete(r) ==
  /\ pc[r] \in {"done", "failed"}
  /\ pc' = [pc EXCEPT ![r] = "idle"]
  /\ req' = [req EXCEPT ![r] = NoRequest]
  /\ status' = [status EXCEPT ![r] = 0]
  /\ ctype' = [ctype EXCEPT ![r] = ""]
  /\ out' = [out EXCEPT ![r] = <<>>]
  /\ flushed' = [flushed EXCEPT ![r] = 0]
  /\ trace' = [trace EXCEPT ![r] = <<>>]
  /\ chunks' = [chunks EXCEPT ![r] = <<>>]
  /\ idx' = [idx EXCEPT ![r] = 0]
  /\ disconnected' = [disconnected EXCEPT ![r] = FALSE]
  /\ UNCHANGED <<cfg, clock, cvars>>

HandlerInit ==
  /\ clock = 0
  /\ pc = [r \in Workers |-> "idle"]
  /\ req = [r \in Workers |-> NoRequest]
  /\ status = [r \in Workers |-> 0]
  /\ ctype = [r \in Workers |-> ""]
  /\ out = [r \in Workers |-> <<>>]
  /\ flushed = [r \in Workers |-> 0]
  /\ trace = [r \in Workers |-> <<>>]
  /\ chunks = [r \in Workers |-> <<>>]
  /\ idx = [r \in Workers |-> 0]
  /\ disconnected = [r \in Workers |-> FALSE]

ComposerIdle ==
  /\ creq = ZeroRequest
  /\ cresp = <<>>
  /\ cchunks = <<>>
  /\ cmodels = <<>>

Init ==
  /\ cfg \in HandlerConfigs
  /\ HandlerInit
  /\ ComposerIdle

\* The steps of a handler after the arrival of its request.
Proceed(r) ==
  \/ ListModels(r)
  \/ CheckMethod(r)
  \/ DecodeBody(r)
  \/ ValidateMessages(r)
  \/ InjectError(r)
  \/ ResponseDelay(r)
  \/ Dispatch(r)
  \/ StreamBegin(r)
  \/ EmitChunk(r)
  \/ ChunkDelay(r)
  \/ EmitDone(r)
  \/ Disconnect(r)
  \/ Complete(r)

\* One request at a time: worker 1 handles request after request.
Next == Arrive(1) \/ Proceed(1)

Spec == Init /\ [][Next]_vars

\* The same with the scheduler's guarantee: a handler that can take a step
\* takes one.  No handler step waits for anything but the end of a sleep.
\* Nothing obliges a request to arrive.
SpecLive == Spec /\ WF_vars(Proceed(1))

(***************************************************************************)
(* Concurrent requests: net/http runs each handler in a goroutine of its   *)
(* own, so the steps of the workers interleave freely.  The requests and   *)
(* configurations are fewer than under Spec.                               *)
(***************************************************************************)
ConcurrentRequests ==
  { q \in HandlerRequests :
      /\ q.method = (IF q.endpoint = "chat" THEN "POST" ELSE "GET")
      /\ q.parseOK /\ q.flusher
      /\ q.body.model = ""
      /\ Len(q.body.messages) = 1
      /\ q.endpoint = "models" => ~q.body.stream }

ConcurrentConfigs ==
  { c \in HandlerConfigs :
      /\ c.StreamChunkDelay = c.ResponseDelay
      /\ ~c.EchoMode /\ c.FixedResponse = <<>>
      /\ c.ErrorRate = 50 * c.ResponseDelay /\ c.ErrorStatusCode = 503 }

ConcurrentArrive(r) == ArriveOf(r, ConcurrentRequests)

InitConcurrent ==
  /\ cfg \in ConcurrentConfigs
  /\ HandlerInit
  /\ ComposerIdle

\* The steps of a handler whose client stays connected; disconnections, which
\* change nothing a handler does, are left to Spec.
ConcurrentProceed(r) ==
  \/ ListModels(r)
  \/ CheckMethod(r)
  \/ DecodeBody(r)
  \/ ValidateMessages(r)
  \/ InjectError(r)
  \/ ResponseDelay(r)
  \/ Dispatch(r)
  \/ StreamBegin(r)
  \/ EmitChunk(r)
  \/ ChunkDelay(r)
  \/ EmitDone(r)
  \/ Complete(r)

NextConcurrent == \E r \in Workers : ConcurrentArrive(r) \/ ConcurrentProceed(r)

SpecConcurrent == InitConcurrent /\ [][NextConcurrent]_vars

(***************************************************************************)
(* The composer on its own: the functions of internal/simulator applied to *)
(* a wider range of texts, message lists and model lists.  The clock does  *)
(* not advance here; the ids are those of one reading.                     *)
(***************************************************************************)
ComposerMessages ==
  { Message("user", <<"H", "i">>),
    Message("user", <<>>),
    Message("assistant", <<"a", "b", " ", " ", "a", "b", " ", "a">>),
    Message("system", <<"a", " ", "b">>) }

RECURSIVE MessageListsOfLen(_)
MessageListsOfLen(n) ==
  IF n = 0 THEN {<<>>}
  ELSE {Append(l, m) : l \in MessageListsOfLen(n - 1), m \in ComposerMessages}

ComposerMessageLists == UNION {MessageListsOfLen(n) : n \in 0..MaxMsgs}

ComposerRequests ==
  [model : ModelNames, messages : ComposerMessageLists, stream : {FALSE}]

ComposerConfigs ==
  [ DefaultModel     : {"llm-simulator-1"},
    AvailableModels  : {<<>>, <<"llm-simulator-1", "gpt-4o">>},
    ResponseDelay    : {0},
    StreamChunkDelay : {0},
    EchoMode         : BOOLEAN,
    FixedResponse    : Texts,
    ErrorRate        : {0},
    ErrorStatusCode  : {500} ]

CallGenerateResponse ==
  /\ cresp = <<>>
  /\ cresp' = << GenerateResponse(cfg, creq, clock) >>
  /\ UNCHANGED <<cfg, clock, hvars, creq, cchunks, cmodels>>

CallGenerateStreamChunks ==
  /\ cchunks = <<>>
  /\ cchunks' = << GenerateStreamChunks(cfg, creq, clock) >>
  /\ UNCHANGED <<cfg, clock, hvars, creq, cresp, cmodels>>

CallGetModels ==
  /\ cmodels = <<>>
  /\ cmodels' = << GetModels(cfg) >>
  /\ UNCHANGED <<cfg, clock, hvars, creq, cresp, cchunks>>

InitComposer ==
  /\ cfg \in ComposerConfigs
  /\ HandlerInit
  /\ creq \in ComposerRequests
  /\ cresp = <<>>
  /\ cchunks = <<>>
  /\ cmodels = <<>>

NextComposer ==
  \/ CallGenerateResponse
  \/ CallGenerateStreamChunks
  \/ CallGetModels

SpecComposer == InitComposer /\ [][NextComposer]_vars

(***************************************************************************)
(* Properties of the orchestrator, checked under Spec.                     *)
(***************************************************************************)
Count(s, x) == Cardinality({i \in DOMAIN s : s[i] = x})

ComposerCalled(r) ==
  \E i \in DOMAIN trace[r] : trace[r][i] \in {"compose_response", "compose_stream"}

Slept(r) ==
  \E i \in DOMAIN trace[r] : trace[r][i] \in {"sleep_response", "sleep_chunk"}

ChatPost(r) == req[r].endpoint = "chat" /\ req[r].method = "POST"

Malformed(r) == ~req[r].parseOK \/ Len(req[r].body.messages) = 0

Ended(r) == pc[r] \in {"done", "failed"}

IsError(r, message, type) ==
  out[r] = << [kind |-> "error", message |-> message, type |-> type] >>

SimulatedFailure(r) == pc[r] = "failed" /\ IsError(r, "simulated error", "server_error")

\* C1: a POST chat-completion request whose body does not parse or whose
\* message list is empty never reaches the composer, whatever the
\* configuration, and ends failed with status 400 and one error body of type
\* invalid_request_error.
C1_ValidationFirst ==
  \A r \in Workers :
    (ChatPost(r) /\ Malformed(r)) =>
      /\ ~ComposerCalled(r)
      /\ pc[r] # "done"
      /\ Ended(r) =>
           /\ status[r] = 400
           /\ Len(out[r]) = 1
           /\ out[r][1].kind = "error"
           /\ out[r][1].type = "invalid_request_error"

C1_Witness ==
  \E r \in Workers :
    /\ ChatPost(r) /\ req[r].parseOK /\ Len(req[r].body.messages) = 0
    /\ cfg.ErrorRate = 100 /\ cfg.ResponseDelay > 0
    /\ pc[r] = "failed" /\ status[r] = 400

\* C2: when a request fails with the simulated error, the handler has slept
\* on neither delay, has not called the composer, and has written nothing
\* but the one error body: no event-stream header and no chunk.
C2_InjectionBeforeDelay ==
  \A r \in Workers :
    SimulatedFailure(r) =>
      /\ ~Slept(r)
      /\ ~ComposerCalled(r)
      /\ ctype[r] # "text/event-stream"
      /\ chunks[r] = <<>>
      /\ \A i \in DOMAIN out[r] : out[r][i].kind \notin {"data", "done", "json"}
      /\ trace[r] = <<"draw", "write_error">>

C2_Witness ==
  \E r \in Workers :
    /\ SimulatedFailure(r)
    /\ req[r].body.stream /\ req[r].flusher
    /\ cfg.ResponseDelay > 0 /\ cfg.StreamChunkDelay > 0

\* The request of worker r passed validation and is past the injection step.
PastInjection(r) ==
  /\ ChatPost(r) /\ ~Malformed(r)
  /\ pc[r] \in {"delay", "dispatch", "stream", "emit", "chunk_delay", "finish",
                "done", "failed"}

NoInjection(r) ==
  /\ Count(trace[r], "draw") = 0
  /\ \A i \in DOMAIN out[r] :
       out[r][i].kind = "error" => out[r][i].message # "simulated error"

\* C3 as claimed: with error rate 1.0 every validated request fails with the
\* configured error status code and the message "simulated error"; with error
\* rate 0.0 no request fails by injection.
C3_Original ==
  \A r \in Workers :
    /\ (cfg.ErrorRate = 100 /\ PastInjection(r)) =>
         (SimulatedFailure(r) /\ status[r] = cfg.ErrorStatusCode)
    /\ cfg.ErrorRate = 0 => NoInjection(r)

\* C3, amended: with error rate 1.0 every validated request, streaming or
\* not, fails with the message "simulated error" and the configured error
\* status code, or 500 when the configured code is 0; with error rate 0.0 no
\* request draws a random value or fails by injection.
C3_ErrorRateExtremes ==
  \A r \in Workers :
    /\ (cfg.ErrorRate = 100 /\ PastInjection(r)) =>
         /\ SimulatedFailure(r)
         /\ status[r] = (IF cfg.ErrorStatusCode = 0 THEN 500 ELSE cfg.ErrorStatusCode)
    /\ cfg.ErrorRate = 0 => NoInjection(r)

C3_Witness ==
  \E r \in Workers :
    /\ cfg.ErrorRate = 100 /\ cfg.ErrorStatusCode = 503
    /\ PastInjection(r) /\ req[r].body.stream
    /\ status[r] = 503

\* The body written so far is a (possibly complete) chunk stream: data
\* events only, then at most one [DONE], which follows the terminal chunk.
IsTerminalChunk(ch) == ch.choices[1].finish_reason = << "stop" >>

StreamSoFar(o) ==
  \A i \in DOMAIN o :
    \/ o[i].kind = "data"
    \/ /\ o[i].kind = "done"
       /\ i = Len(o)
       /\ i > 1
       /\ o[i - 1].kind = "data"
       /\ IsTerminalChunk(o[i - 1].chunk)

CompleteStream(o) ==
  /\ Len(o) >= 3
  /\ StreamSoFar(o)
  /\ o[Len(o)].kind = "done"
  /\ Cardinality({i \in DOMAIN o : o[i].kind = "data" /\ IsTerminalChunk(o[i].chunk)}) = 1

SingleBody(o, kind) == Len(o) = 1 /\ o[1].kind = kind

\* C4: a chat-completion request that has ended has written exactly one of:
\* one response, one complete chunk stream ending with the terminal chunk and
\* then [DONE], or one error body; and at no point has an error body or a
\* response been written beside anything else.
C4_NoPartialSuccess ==
  \A r \in Workers :
    req[r].endpoint = "chat" =>
      /\ \/ out[r] = <<>>
         \/ SingleBody(out[r], "json")
         \/ SingleBody(out[r], "error")
         \/ StreamSoFar(out[r])
      /\ pc[r] = "done" =>
           \/ SingleBody(out[r], "json") /\ status[r] = 200
           \/ CompleteStream(out[r]) /\ status[r] = 200
      /\ pc[r] = "failed" => SingleBody(out[r], "error") /\ status[r] >= 400

C4_Witness ==
  \E r \in Workers :
    /\ pc[r] = "done"
    /\ CompleteStream(out[r])
    /\ Len(out[r]) >= 4
    /\ disconnected[r]

\* The successful streaming request of worker r.
Streaming(r) == ChatPost(r) /\ ~Malformed(r) /\ req[r].body.stream /\ req[r].flusher

\* C8: the body of a stream is the composer's chunks, one data event each, in
\* the composer's order and each once; when the handler has returned, exactly
\* one [DONE] follows the terminal chunk, and nothing follows [DONE].
C8_StreamOrder ==
  \A r \in Workers :
    (Streaming(r) /\ ctype[r] = "text/event-stream") =>
      /\ \A i \in DOMAIN out[r] :
           IF i <= Len(chunks[r])
             THEN out[r][i] = [kind |-> "data", chunk |-> chunks[r][i]]
             ELSE out[r][i] = [kind |-> "done"] /\ i = Len(chunks[r]) + 1
      /\ pc[r] = "done" =>
           /\ Len(out[r]) = Len(chunks[r]) + 1
           /\ out[r][Len(out[r])].kind = "done"
           /\ IsTerminalChunk(out[r][Len(out[r]) - 1].chunk)
      /\ pc[r] \in {"emit", "chunk_delay"} => Len(out[r]) <= Len(chunks[r])

C8_Witness ==
  \E r \in Workers :
    /\ Streaming(r)
    /\ pc[r] = "done"
    /\ Len(chunks[r]) >= 4
    /\ Len(out[r]) = Len(chunks[r]) + 1

\* The positions of label x in trace s.
Positions(s, x) == {i \in DOMAIN s : s[i] = x}

\* C9 as claimed: with an inter-chunk delay configured, a finished stream of N
\* chunks has slept N - 1 times between chunks, and not between the terminal
\* chunk and [DONE].
C9_NoPauseAfterLastChunk ==
  \A r \in Workers :
    (Streaming(r) /\ pc[r] = "done" /\ cfg.StreamChunkDelay > 0) =>
      /\ Count(trace[r], "sleep_chunk") = Len(chunks[r]) - 1
      /\ \A i \in Positions(trace[r], "sleep_chunk") :
           \E j \in Positions(trace[r], "write_chunk") : j > i

\* C10 as claimed: once the client has disconnected, the handler writes no
\* further chunk, sleeps on no further inter-chunk delay and does not write
\* the terminal marker.
C10_Cancellation ==
  \A r \in Workers :
    \A i \in Positions(trace[r], "disconnect") :
      \A j \in DOMAIN trace[r] :
        j > i => trace[r][j] \notin {"write_chunk", "sleep_chunk", "write_done"}

\* The request of worker r passed validation, was not error-injected and is
\* past the response delay.
PastDelay(r) ==
  /\ ChatPost(r) /\ ~Malformed(r)
  /\ \/ pc[r] \in {"dispatch", "stream", "emit", "chunk_delay", "finish", "done"}
     \/ pc[r] = "failed" /\ ~SimulatedFailure(r)

OutputSteps ==
  {"compose_response", "compose_stream", "write_error", "write_json",
   "write_chunk", "write_done", "flush", "sleep_chunk"}

\* C11: a validated request that is not error-injected sleeps on the response
\* delay exactly once when one is configured (never otherwise), on the
\* streaming and the non-streaming path alike, before the composer is called
\* and before anything is written; the sleep is not repeated per chunk.
C11_ResponseDelayOnce ==
  \A r \in Workers :
    (ChatPost(r) /\ ~Malformed(r)) =>
      /\ Count(trace[r], "sleep_response") <= 1
      /\ PastDelay(r) =>
           Count(trace[r], "sleep_response") = (IF cfg.ResponseDelay > 0 THEN 1 ELSE 0)
      /\ \A i \in Positions(trace[r], "sleep_response") :
           \A j \in 1..(i - 1) : trace[r][j] \notin OutputSteps

C11_Witness ==
  \E r \in Workers :
    /\ Streaming(r)
    /\ pc[r] = "done"
    /\ cfg.ResponseDelay > 0
    /\ Len(chunks[r]) >= 4
    /\ Count(trace[r], "sleep_response") = 1
    /\ trace[r][1] = "draw"

(***************************************************************************)
(* Properties of the composer, checked under SpecComposer.                 *)
(***************************************************************************)
ComposedText == getResponseText(cfg, creq)

\* The words of a text, read off the text itself: a word starts at a
\* non-space character that is first or follows a space, and runs up to the
\* next space or the end.
WordStarts(t) ==
  {i \in DOMAIN t : ~IsSpace(t[i]) /\ (i = 1 \/ IsSpace(t[i - 1]))}

WordEnd(t, s) ==
  CHOOSE e \in s..Len(t) :
    /\ \A k \in s..e : ~IsSpace(t[k])
    /\ e = Len(t) \/ IsSpace(t[e + 1])

NthWord(t, n) ==
  LET s == CHOOSE u \in WordStarts(t) :
             Cardinality({v \in WordStarts(t) : v <= u}) = n
  IN  SubSeq(t, s, WordEnd(t, s))

Delta(ch) == ch.choices[1].delta[1]

\* C5: for a composed text of W words, GenerateStreamChunks returns W + 2
\* chunks: the role chunk, then for i = 1..W a chunk whose delta content is
\* the i-th word followed by one space, then the terminal chunk; two chunks
\* when W = 0.
C5_ChunkSequence ==
  cchunks # <<>> =>
    LET ch == cchunks[1]
        W  == Cardinality(WordStarts(ComposedText))
    IN  /\ Len(ch) = W + 2
        /\ Delta(ch[1]).role = "assistant"
        /\ \A i \in 1..W :
             /\ Delta(ch[i + 1]).content = NthWord(ComposedText, i) \o <<" ">>
             /\ Delta(ch[i + 1]).role = ""
             /\ ~IsTerminalChunk(ch[i + 1])
        /\ IsTerminalChunk(ch[W + 2])
        /\ \A i \in DOMAIN ch : Len(ch[i].choices) = 1

C5_Witness ==
  /\ cchunks # <<>>
  /\ Len(cchunks[1]) = 4
  /\ Len(ComposedText) = 4
  /\ Delta(cchunks[1][2]).content # Delta(cchunks[1][3]).content

\* C6: in a chunk sequence the first delta has role "assistant" and empty
\* content, the last chunk has finish reason "stop" and an empty delta, and
\* every other chunk has no finish reason; a non-streaming response has
\* finish reason "stop".
C6_FinishReason ==
  /\ cchunks # <<>> =>
       LET ch == cchunks[1]
       IN  /\ Delta(ch[1]) = Message("assistant", <<>>)
           /\ ch[Len(ch)].choices[1].finish_reason = << "stop" >>
           /\ Delta(ch[Len(ch)]) = Message("", <<>>)
           /\ \A i \in 1..(Len(ch) - 1) : ch[i].choices[1].finish_reason = <<>>
  /\ cresp # <<>> => cresp[1].choices[1].finish_reason = << "stop" >>

C6_Witness ==
  /\ cchunks # <<>>
  /\ cresp # <<>>
  /\ Len(cchunks[1]) >= 4

RECURSIVE JoinContents(_, _, _)
JoinContents(ch, i, j) ==
  IF i > j THEN <<>> ELSE Delta(ch[i]).content \o JoinContents(ch, i + 1, j)

\* C7 as claimed: the delta contents of the word chunks, concatenated in
\* order and trimmed, are the message content GenerateResponse returns for
\* the same request and configuration.
C7_RoundTrip ==
  (cchunks # <<>> /\ cresp # <<>>) =>
    TrimSpace(JoinContents(cchunks[1], 2, Len(cchunks[1]) - 1))
      = cresp[1].choices[1].message[1].content

RespText == cresp[1].choices[1].message[1].content

RespUsage == cresp[1].usage

\* C12: the usage of a response has total = prompt + completion, neither
\* component negative, and completion > 0 whenever the response text is not
\* empty.
C12_UsageTotals ==
  cresp # <<>> =>
    /\ RespUsage.total_tokens = RespUsage.prompt_tokens + RespUsage.completion_tokens
    /\ RespUsage.prompt_tokens >= 0
    /\ RespUsage.completion_tokens >= 0
    /\ Len(RespText) > 0 => RespUsage.completion_tokens > 0

C12_Witness ==
  /\ cresp # <<>>
  /\ Len(RespText) \in 1..3
  /\ RespUsage.completion_tokens = 1
  /\ RespUsage.prompt_tokens > 0
  /\ RespUsage.total_tokens = RespUsage.prompt_tokens + 1

\* C13: the token estimate t of a text of length n is floor(n / 4) when that
\* is at least 1 (4t <= n < 4t + 4), is 1 when 0 < n < 4, and is 0 exactly
\* when the text is empty; read off the completion tokens, which are the
\* estimate of the composed text.
C13_TokenEstimate ==
  cresp # <<>> =>
    LET n == Len(ComposedText)
        t == RespUsage.completion_tokens
    IN  /\ (t = 0) <=> (n = 0)
        /\ n >= 4 => (4 * t <= n /\ n < 4 * t + 4)
        /\ n \in 1..3 => t = 1

C13_Witness ==
  /\ cresp # <<>>
  /\ Len(ComposedText) = 8
  /\ RespUsage.completion_tokens = 2

\* The estimate the claims give for a text of length n.
TokensOfLen(n) == IF n = 0 THEN 0 ELSE IF n < 4 THEN 1 ELSE n \div 4

RECURSIVE PromptSum(_)
PromptSum(messages) ==
  IF messages = <<>> THEN 0
  ELSE PromptSum(SubSeq(messages, 1, Len(messages) - 1))
         + TokensOfLen(Len(messages[Len(messages)].content)) + 4

\* C14: the prompt tokens of a response are the sum over all messages of the
\* request, whatever their role, of the estimate of the content plus 4; so at
\* least 4 per message, and 5 for the single user message "Hi".
C14_PromptTokens ==
  cresp # <<>> =>
    /\ RespUsage.prompt_tokens = PromptSum(creq.messages)
    /\ RespUsage.prompt_tokens >= 4 * Len(creq.messages)
    /\ creq.messages = << Message("user", <<"H", "i">>) >> => RespUsage.prompt_tokens = 5

C14_Witness ==
  /\ cresp # <<>>
  /\ Len(creq.messages) = 2
  /\ creq.messages[1].role = "assistant"
  /\ creq.messages[2].role = "user"
  /\ RespUsage.prompt_tokens = 11

C17_ModelList ==
  cmodels # <<>> =>
    /\ cmodels[1].object = "list"
    /\ Len(cmodels[1].data) = Len(cfg.AvailableModels)
    /\ \A i \in 1..Len(cfg.AvailableModels) :
         /\ cmodels[1].data[i].id = cfg.AvailableModels[i]
         /\ cmodels[1].data[i].object = "model"

C17_Witness ==
  /\ cmodels # <<>>
  /\ Len(cmodels[1].data) = 2
  /\ cmodels[1].data[1].id # cmodels[1].data[2].id

(***************************************************************************)
(* Further properties of the orchestrator, checked under Spec.             *)
(***************************************************************************)
\* The model name the claims give for the request of worker r.
Resolved(r) ==
  IF req[r].body.model # "" THEN req[r].body.model ELSE cfg.DefaultModel

\* C16: the chunks of one stream all carry one id and the resolved model, and
\* a non-streaming response carries the resolved model: the request's model
\* when that is not empty, the configured default model otherwise.
C16_SharedIdAndModel ==
  \A r \in Workers :
    /\ \A i \in DOMAIN chunks[r] :
         /\ chunks[r][i].id = chunks[r][1].id
         /\ chunks[r][i].model = Resolved(r)
    /\ \A i \in DOMAIN out[r] :
         /\ out[r][i].kind = "json" => out[r][i].body.model = Resolved(r)
         /\ out[r][i].kind = "data" =>
              /\ out[r][i].chunk.model = Resolved(r)
              /\ out[r][i].chunk.id = out[r][1].chunk.id

C16_Witness ==
  \E r \in Workers :
    /\ Streaming(r)
    /\ pc[r] = "done"
    /\ req[r].body.model = "gpt-4o"
    /\ Len(chunks[r]) >= 4
    /\ chunks[r][1].id > 0
    /\ out[r][3].chunk.model = "gpt-4o"

\* C18: the step in which error injection fires writes the configured error
\* status code, or 500 when the configured code is 0, and one structured
\* error body of type server_error with the message "simulated error", and
\* ends the request.
C18_InjectedStatus ==
  [][ \A r \in Workers :
        (pc[r] = "inject" /\ pc'[r] # "inject" /\ pc'[r] # NextStage("inject")) =>
          /\ pc'[r] = "failed"
          /\ cfg.ErrorStatusCode # 0 => status'[r] = cfg.ErrorStatusCode
          /\ cfg.ErrorStatusCode = 0 => status'[r] = 500
          /\ ctype'[r] = "application/json"
          /\ out'[r] = << [kind |-> "error", message |-> "simulated error",
                           type |-> "server_error"] >>
          /\ trace'[r] = <<"draw", "write_error">> ]_vars

C18_Witness ==
  \E r \in Workers :
    /\ SimulatedFailure(r)
    /\ cfg.ErrorRate = 50
    /\ cfg.ErrorStatusCode = 0
    /\ status[r] = 500
    /\ req[r].body.stream

\* A streaming request on a transport that is no http.Flusher.
NoFlush(r) == ChatPost(r) /\ req[r].body.stream /\ ~req[r].flusher

WrongMethod(r) ==
  \/ req[r].endpoint = "chat" /\ req[r].method # "POST"
  \/ req[r].endpoint = "models" /\ req[r].method # "GET"

\* C20: a chat-completion request with a method other than POST, and a
\* model-list request with a method other than GET, fails with status 405 and
\* one error body "method not allowed" of type invalid_request_error, whatever
\* its body and the configuration; writing that error is the only step the
\* handler takes: no body parsing, no draw, no delay, no composer call.
C20_MethodNotAllowed ==
  \A r \in Workers :
    WrongMethod(r) =>
      /\ pc[r] \in {"chat", "models", "failed"}
      /\ pc[r] = "failed" =>
           /\ status[r] = 405
           /\ ctype[r] = "application/json"
           /\ IsError(r, "method not allowed", "invalid_request_error")
           /\ trace[r] = <<"write_error">>
      /\ pc[r] # "failed" => (trace[r] = <<>> /\ out[r] = <<>> /\ status[r] = 0)

C20_Witness ==
  \E r \in Workers :
    /\ req[r].endpoint = "chat"
    /\ req[r].method = "DELETE"
    /\ ~req[r].parseOK
    /\ cfg.ErrorRate = 100 /\ cfg.ResponseDelay > 0
    /\ pc[r] = "failed"
    /\ status[r] = 405

(***************************************************************************)
(* Properties of concurrent requests, checked under SpecConcurrent.        *)
(***************************************************************************)
\* The ids the response of worker r carries: that of its non-streaming body
\* and that of its chunks.
ResponseIds(r) ==
  { out[r][i].body.id : i \in {j \in DOMAIN out[r] : out[r][j].kind = "json"} }
    \cup { chunks[r][i].id : i \in DOMAIN chunks[r] }

Succeeded(r) == req[r].endpoint = "chat" /\ pc[r] = "done"

\* C21: two distinct successful requests, also when handled concurrently,
\* carry different response ids.  Stated for requests that have not slept and
\* for readings below the last value of the bounded clock: there, two equal
\* ids are two calls of time.Now() that return the same nanosecond count.
C21_UniqueIds ==
  \A r1, r2 \in Workers :
    ( /\ r1 # r2
      /\ Succeeded(r1) /\ Succeeded(r2)
      /\ ~Slept(r1) /\ ~Slept(r2)
      /\ clock < MaxClock ) =>
      ResponseIds(r1) \cap ResponseIds(r2) = {}

\* All that the handler of worker r holds.
Local(r) ==
  << pc[r], req[r], status[r], ctype[r], out[r], flushed[r], trace[r], chunks[r],
     idx[r], disconnected[r] >>

Suspended(r) == pc[r] \in {"delay", "chunk_delay"}

\* What a finished request has written is a function of the configuration,
\* of its own request and of its own clock reading.
OwnOutcome(r) ==
  /\ (pc[r] = "done" /\ req[r].endpoint = "models") =>
       out[r] = << [kind |-> "models", body |-> GetModels(cfg)] >>
  /\ (pc[r] = "done" /\ req[r].endpoint = "chat" /\ ~req[r].body.stream) =>
       \E now \in 0..MaxClock :
         out[r] = << [kind |-> "json", body |-> GenerateResponse(cfg, req[r].body, now)] >>
  /\ (pc[r] = "done" /\ req[r].endpoint = "chat" /\ req[r].body.stream) =>
       \E now \in 0..MaxClock :
         /\ chunks[r] = GenerateStreamChunks(cfg, req[r].body, now)
         /\ out[r] = [i \in 1..Len(chunks[r]) |-> [kind |-> "data", chunk |-> chunks[r][i]]]
                       \o << [kind |-> "done"] >>
  /\ pc[r] = "failed" => Len(out[r]) = 1 /\ out[r][1].kind = "error"

\* C22: whatever the other workers do, and in particular while another worker
\* is suspended in the response delay or in an inter-chunk delay, a request
\* under way can take its next step and an idle worker can take a request;
\* a step changes what one worker holds and nothing any other worker holds;
\* what a finished request has written depends on the configuration and its
\* own request only; and the configuration never changes.
C22_Independence ==
  /\ [] \A r \in Workers :
          /\ pc[r] # "idle" => ENABLED ConcurrentProceed(r)
          /\ pc[r] = "idle" => ENABLED ConcurrentArrive(r)
          /\ OwnOutcome(r)
  /\ [][ /\ cfg' = cfg
         /\ \A r1, r2 \in Workers :
              (r1 # r2 /\ Local(r1)' # Local(r1)) => Local(r2)' = Local(r2) ]_vars

C22_Witness ==
  \E r1, r2 \in Workers :
    /\ r1 # r2
    /\ cfg.ResponseDelay > 0
    /\ Suspended(r1) /\ pc[r1] = "chunk_delay"
    /\ Streaming(r2) /\ pc[r2] = "done"
    /\ Count(trace[r2], "sleep_chunk") = 2
    /\ idx[r1] = 1

(***************************************************************************)
(* Delivery and termination, checked under Spec and SpecLive.              *)
(***************************************************************************)
\* C23: in a streaming response every event written is flushed in the step
\* that writes it: chunk i is on the transport before the delay that follows
\* it and before chunk i + 1 is written, so that the first chunk is out while
\* the rest of the stream is still unwritten.
C23_IncrementalDelivery ==
  \A r \in Workers :
    (Streaming(r) /\ ctype[r] = "text/event-stream") =>
      /\ flushed[r] = Len(out[r])
      /\ \A i \in DOMAIN trace[r] :
           trace[r][i] \in {"write_chunk", "write_done"} =>
             (i < Len(trace[r]) /\ trace[r][i + 1] = "flush")
      /\ pc[r] = "chunk_delay" => (flushed[r] = idx[r] /\ Len(out[r]) = idx[r])
      /\ pc[r] = "emit" => (flushed[r] = idx[r] - 1 /\ Len(out[r]) = idx[r] - 1)
      /\ \A i \in Positions(trace[r], "sleep_chunk") :
           Count(SubSeq(trace[r], 1, i), "flush")
             = Count(SubSeq(trace[r], 1, i), "write_chunk")

C23_Witness ==
  \E r \in Workers :
    /\ Streaming(r) /\ ctype[r] = "text/event-stream"
    /\ Len(chunks[r]) >= 4
    /\ cfg.StreamChunkDelay > 0
    /\ pc[r] = "chunk_delay"
    /\ flushed[r] = 1
    /\ Len(out[r]) = 1

ErrorBodies(r) == {i \in DOMAIN out[r] : out[r][i].kind = "error"}

\* C24: every request under way eventually ends done or failed; once ended,
\* its handler changes nothing more (the worker is only freed for the next
\* request); a request draws at most one error-injection value and writes at
\* most one error; done is a success (status 200, no error body) and failed
\* carries exactly one error body.
C24_Termination ==
  /\ \A r \in Workers : (pc[r] # "idle") ~> Ended(r)
  /\ [][ \A r \in Workers :
           Ended(r) => (Local(r)' = Local(r) \/ pc'[r] = "idle") ]_vars
  /\ [] \A r \in Workers :
          /\ Count(trace[r], "draw") <= 1
          /\ Count(trace[r], "write_error") <= 1
          /\ Cardinality(ErrorBodies(r)) <= 1
          /\ pc[r] = "done" => (status[r] = 200 /\ ErrorBodies(r) = {})
          /\ pc[r] = "failed" => (status[r] >= 400 /\ Len(out[r]) = 1
                                   /\ ErrorBodies(r) = {1})

C24_Witness ==
  \E r \in Workers :
    /\ Streaming(r)
    /\ pc[r] = "done"
    /\ disconnected[r]
    /\ Count(trace[r], "draw") = 1
    /\ Len(chunks[r]) >= 4

(***************************************************************************)
(* Further properties of the composer, checked under SpecComposer.         *)
(***************************************************************************)
UserPositions(messages) == {i \in DOMAIN messages : messages[i].role = "user"}

\* The content of the last message of role "user"; the list holds one.
LastUserContent(messages) ==
  messages[CHOOSE i \in UserPositions(messages) :
             \A j \in UserPositions(messages) : j <= i].content

\* C25: with echo mode on, the text of the response is "Echo: " followed by
\* the content of the last message of role "user", for every message list
\* that holds such a message, also when a message of another role follows it.
C25_EchoLastUser ==
  (cresp # <<>> /\ cfg.EchoMode /\ UserPositions(creq.messages) # {}) =>
    RespText = <<"E", "c", "h", "o", ":", " ">> \o LastUserContent(creq.messages)

RoleOnly(d) == d.role # "" /\ d.content = <<>>

ContentOnly(d) == d.role = "" /\ d.content # <<>>

EmptyDelta(d) == d.role = "" /\ d.content = <<>>

\* C26: a non-streaming response and every chunk of a stream carry exactly
\* one choice, of index 0; the choice of the response holds a message of role
\* "assistant" and no delta; the choice of a chunk holds no message and a
\* delta that is role-only, content-only or empty.
C26_OneChoice ==
  /\ cresp # <<>> =>
       /\ Len(cresp[1].choices) = 1
       /\ cresp[1].choices[1].index = 0
       /\ Len(cresp[1].choices[1].message) = 1
       /\ cresp[1].choices[1].message[1].role = "assistant"
       /\ cresp[1].choices[1].delta = <<>>
  /\ cchunks # <<>> =>
       \A i \in DOMAIN cchunks[1] :
         /\ Len(cchunks[1][i].choices) = 1
         /\ cchunks[1][i].choices[1].index = 0
         /\ cchunks[1][i].choices[1].message = <<>>
         /\ Len(cchunks[1][i].choices[1].delta) = 1
         /\ \/ RoleOnly(cchunks[1][i].choices[1].delta[1])
            \/ ContentOnly(cchunks[1][i].choices[1].delta[1])
            \/ EmptyDelta(cchunks[1][i].choices[1].delta[1])

C26_Witness ==
  /\ cresp # <<>>
  /\ cchunks # <<>>
  /\ Len(cchunks[1]) >= 4
  /\ RoleOnly(cchunks[1][1].choices[1].delta[1])
  /\ ContentOnly(cchunks[1][2].choices[1].delta[1])
  /\ EmptyDelta(cchunks[1][Len(cchunks[1])].choices[1].delta[1])
  /\ Len(cresp[1].choices[1].message[1].content) > 0

====
